---- MODULE Spec2Model ----
(***************************************************************************)
(* A model of QDDPM_tf.py: the denoise ansatz backCircuit, the backward    *)
(* pipelines of QDDPM_cpu and QDDPM, the three ancilla-measurement         *)
(* routines and the forward diffusion circuits.                            *)
(*                                                                         *)
(* Quantum amplitudes are not computed numerically.  A circuit is the      *)
(* sequence of gates the code appends to it; a register is a function from *)
(* amplitude positions to cells; the unitary evolution of a register is an *)
(* uninterpreted symbol (a cell naming the call that produced it).  The    *)
(* measurement routines are modelled on exact integer amplitudes, a        *)
(* normalised amplitude a/sqrt(s) being the pair (a, s).                   *)
(*                                                                         *)
(* A call is modelled by what the body of the callee does with the         *)
(* arguments it reads.  How tensorcircuit, TensorFlow and PyTorch bind and *)
(* convert arguments and results (the parameter row handed to backCircuit, *)
(* which has no parameter for it; the pair tf.linalg.normalize returns) is *)
(* outside the model.                                                      *)
(***************************************************************************)
EXTENDS Integers, Sequences, FiniteSets, TLC

VARIABLES
    \* ---- backCircuit (lines 164-188)
    n_tot,        \* number of qubits of the circuit
    L,            \* number of layers
    params,       \* the parameter vector the caller hands to the circuit
    c,            \* the circuit: the sequence of gates appended so far
    layer,        \* loop variable "_" of "for _ in range(L)"
    i,            \* loop variable "i" of the inner loops
    pc            \* position in backCircuit

circuitVars == <<n_tot, L, params, c, layer, i, pc>>

VARIABLES
    \* ---- the backward pipelines (lines 243-270 and 386-399)
    entry,        \* which entry point runs
    n,            \* self.n, number of data qubits
    na,           \* self.na, number of ancilla qubits
    T,            \* self.T
    t,            \* the target step of prepareInput_t
    Ndata,        \* number of samples
    states,       \* backDataGeneration's tensor: slot -> row -> position -> cell
    input_tplus1, \* self.input_tplus1: row -> position -> cell
    q_weights,    \* index of the row loaded into self.qclayer.q_weights[0]
    tt,           \* the loop variable
    calls,        \* history: one record per call of backwardOutput_t
    writes,       \* history: how often each slot of states was assigned
    ppc           \* position in the entry point

pipeVars == <<entry, n, na, T, t, Ndata, states, input_tplus1, q_weights, tt,
              calls, writes, ppc>>

VARIABLES
    \* ---- the measurement routines (lines 213-228, 332-366, 376-383)
    impl,         \* which routine measures the batch
    inputs,       \* the batch to be measured: row -> position -> amplitude
    m_res,        \* the ancilla outcome drawn for each row
    output_t,     \* the list backwardOutput_t fills in the sequential branch
    post_state,   \* the batch returned: row -> position -> normalised amplitude
    mpc           \* position in the routine

measVars == <<impl, inputs, m_res, output_t, post_state, mpc>>

VARIABLES
    \* ---- forward diffusion (lines 50-89 and 118-161)
    dmodel,       \* OneQubitDiffusionModel or MultiQubitDiffusionModel
    seed,         \* the caller's seed
    diff_hs,      \* the hyper-parameters, one per layer
    phis,         \* per call: sample -> index -> single-qubit angle
    gs,           \* per call: sample -> layer -> RZZ angle
    circ,         \* per call: sample -> the gates of its circuit so far
    sample,       \* the sample whose circuit is being built
    dpc           \* position in the current call

diffVars == <<dmodel, seed, diff_hs, phis, gs, circ, sample, dpc>>

vars == <<circuitVars, pipeVars, measVars, diffVars>>

-----------------------------------------------------------------------------
(* Bounds of the model *)

MaxNtot == 4
MaxL == 2
MaxParam == 1
MaxN == 2
MaxNa == 2
MaxT == 3
MaxNdata == 2
\* at most this many ancilla bits are measured in one run (T * Ndata * na)
MaxDraws == 6
\* amplitudes of the measured batches are integers 0..MaxAmp, in units in
\* which a state of norm 1 has squared amplitudes summing to NormSq
MaxAmp == 2
NormSq == 4
\* at most this many amplitudes in a measured batch (Ndata * 2^(n+na))
MaxCells == 8
\* forward diffusion: steps t in 0..MaxSteps, seeds 0..MaxSeed, diff_hs in 1..MaxH
MaxSteps == 2
MaxSeed == 0
MaxH == 2

-----------------------------------------------------------------------------
(* The parts of the program a specification does not run stay as constructed *)

CircuitIdle ==
    /\ n_tot = 1 /\ L = 0 /\ params = << >> /\ c = << >>
    /\ layer = 0 /\ i = 0 /\ pc = "idle"

PipeIdle ==
    /\ entry = "none" /\ n = 1 /\ na = 1 /\ T = 0 /\ t = 0 /\ Ndata = 1
    /\ states = << >> /\ input_tplus1 = << >> /\ q_weights = -1 /\ tt = 0
    /\ calls = << >> /\ writes = << >> /\ ppc = "idle"

MeasIdle ==
    /\ impl = "none" /\ inputs = << >> /\ m_res = << >> /\ output_t = << >>
    /\ post_state = << >> /\ mpc = "idle"

DiffIdle ==
    /\ dmodel = "none" /\ seed = 0 /\ diff_hs = << >> /\ phis = << >>
    /\ gs = << >> /\ circ = << >> /\ sample = 0 /\ dpc = "idle"

-----------------------------------------------------------------------------
(* backCircuit *)

\* The fixed angles of lines 179 and 180, in tenths of a radian.
RxTheta == 3
RyTheta == 1

\* The parameter vectors a caller may hand over: weights_shape = [2*n_tot*L].
ParamVectors(len) == { [k \in 0..(len - 1) |-> v * (k + 1)] : v \in 0..MaxParam }

Gate(name, a, b, theta, src, l) ==
    [g |-> name, a |-> a, b |-> b, theta |-> theta, src |-> src, layer |-> l]

\* c.rx(i, theta=0.3); c.ry(i, theta=0.1)
RotationGates(q, l) ==
    << Gate("rx", q, q, RxTheta, "fixed", l), Gate("ry", q, q, RyTheta, "fixed", l) >>

\* range(n_tot // 2)
EvenCount(nq) == nq \div 2

\* range((n_tot-1) // 2)
OddCountBug(nq) == nq \div 2
OddCount(nq) == (nq - 1) \div 2

CircuitInit ==
    /\ n_tot \in 1..MaxNtot
    /\ L \in 0..MaxL
    /\ params \in ParamVectors(2 * n_tot * L)
    /\ c = << >>
    /\ layer = 0
    /\ i = 0
    /\ pc = IF L = 0 THEN "done" ELSE "rot"
    /\ PipeIdle
    /\ MeasIdle
    /\ DiffIdle

RotationStep ==
    /\ pc = "rot" /\ i < n_tot
    /\ c' = c \o RotationGates(i, layer)
    /\ i' = i + 1
    /\ UNCHANGED <<n_tot, L, params, layer, pc, pipeVars, measVars, diffVars>>

RotationEnd ==
    /\ pc = "rot" /\ i = n_tot
    /\ pc' = "cz_even"
    /\ i' = 0
    /\ UNCHANGED <<n_tot, L, params, c, layer, pipeVars, measVars, diffVars>>

CzEvenStep ==
    /\ pc = "cz_even" /\ i < EvenCount(n_tot)
    /\ c' = Append(c, Gate("cz", 2 * i, 2 * i + 1, 0, "none", layer))
    /\ i' = i + 1
    /\ UNCHANGED <<n_tot, L, params, layer, pc, pipeVars, measVars, diffVars>>

CzEvenEnd ==
    /\ pc = "cz_even" /\ i = EvenCount(n_tot)
    /\ pc' = "cz_odd"
    /\ i' = 0
    /\ UNCHANGED <<n_tot, L, params, c, layer, pipeVars, measVars, diffVars>>

CzOddStep ==
    /\ pc = "cz_odd" /\ i < OddCount(n_tot)
    /\ c' = Append(c, Gate("cz", 2 * i + 1, 2 * i + 2, 0, "none", layer))
    /\ i' = i + 1
    /\ UNCHANGED <<n_tot, L, params, layer, pc, pipeVars, measVars, diffVars>>

CzOddEnd ==
    /\ pc = "cz_odd" /\ i = OddCount(n_tot)
    /\ layer' = layer + 1
    /\ pc' = IF layer + 1 = L THEN "done" ELSE "rot"
    /\ i' = 0
    /\ UNCHANGED <<n_tot, L, params, c, pipeVars, measVars, diffVars>>

CircuitNext ==
    \/ RotationStep
    \/ RotationEnd
    \/ CzEvenStep
    \/ CzEvenEnd
    \/ CzOddStep
    \/ CzOddEnd

SpecCircuit == CircuitInit /\ [][CircuitNext]_vars

-----------------------------------------------------------------------------
(* Registers of the backward pipeline *)

Pow2(k) == 2 ^ k

\* torch.zeros: an amplitude that is exactly zero
ZeroCell == [kind |-> "zero", call |-> 0, row |-> 0, pos |-> 0]
\* amplitude j of sample r of the ensemble at step T
InCell(r, j) == [kind |-> "in", call |-> 0, row |-> r, pos |-> j]
\* amplitude p of sample r of the state backCircuit returns in call number cn
OutCell(cn, r, p) == [kind |-> "out", call |-> cn, row |-> r, pos |-> p]
\* the same amplitude divided by the norm of the row it was gathered into
Normalized(cell) == [cell EXCEPT !.kind = "post"]

Rows(N) == 0..(N - 1)

\* torch.zeros((Ndata, 2**self.n_tot))
Zeros(N, dim) == [r \in Rows(N) |-> [p \in 0..(dim - 1) |-> ZeroCell]]

\* inputs_T, or randomSampleGeneration(Ndata): Ndata states of 2**n amplitudes
Inputs_T(N, nq) == [r \in Rows(N) |-> [j \in 0..(Pow2(nq) - 1) |-> InCell(r, j)]]

\* buf[:, :2**self.n] = data
SetDataBug(buf, data, nq) ==
    [r \in DOMAIN buf |-> [p \in DOMAIN buf[r] |->
        IF p >= Pow2(nq) /\ p < 2 * Pow2(nq) THEN data[r][p - Pow2(nq)] ELSE buf[r][p]]]
SetData(buf, data, nq) ==
    [r \in DOMAIN buf |-> [p \in DOMAIN buf[r] |->
        IF p < Pow2(nq) THEN data[r][p] ELSE buf[r][p]]]

\* self.backCircuit_vmap(inputs, params) and self.qclayer(inputs): backCircuit
\* on every sample; the gates do not depend on the parameters.
backCircuit_vmap(cn, batch, nq) ==
    [r \in DOMAIN batch |-> [p \in 0..(Pow2(nq) - 1) |-> OutCell(cn, r, p)]]

\* indices = 2 ** self.n * tf.reshape(m_res, [-1, 1]) + tf.range(2 ** self.n)
GatherIndices(nq, m) == [j \in 0..(Pow2(nq) - 1) |-> Pow2(nq) * m + j]

\* post_state = tf.gather(inputs, indices, batch_dims=1)
Gather(batch, res, nq) ==
    [r \in DOMAIN batch |->
        [j \in 0..(Pow2(nq) - 1) |-> batch[r][GatherIndices(nq, res[r])[j]]]]

RECURSIVE Ascending(_)
Ascending(S) ==
    IF S = {} THEN << >>
    ELSE LET m == CHOOSE x \in S : \A y \in S : x <= y
         IN  <<m>> \o Ascending(S \ {m})

\* the rows a boolean mask m_res == v keeps, in batch order
Masked(res, v) == Ascending({r \in DOMAIN res : res[r] = v})

\* torch.vstack((inputs[m_res==0, :2**self.n], inputs[m_res==1, 2**self.n:]))
PartitionVstack(batch, res, nq) ==
    LET order == Masked(res, 0) \o Masked(res, 1)
    IN  [r \in Rows(Len(order)) |->
            [j \in 0..(Pow2(nq) - 1) |->
                IF res[order[r + 1]] = 0
                THEN batch[order[r + 1]][j]
                ELSE batch[order[r + 1]][Pow2(nq) + j]]]

\* the division by the norm, on symbolic amplitudes
NormalizeCells(post) ==
    [r \in DOMAIN post |-> [j \in DOMAIN post[r] |-> Normalized(post[r][j])]]

Outcomes(N, k) == [Rows(N) -> 0..(Pow2(k) - 1)]

-----------------------------------------------------------------------------
(* QDDPM_cpu.prepareInput_t, QDDPM_cpu.backDataGeneration, QDDPM.prepareInput_t *)

Entries == {"cpu_prepareInput_t", "cpu_backDataGeneration", "prepareInput_t"}

\* for tt in range(self.T-1, t, -1) / range(self.T-1, -1, -1)
FirstStep(Tsteps) == Tsteps - 1

\* where the loop stops: range(.., t, -1) excludes t, range(.., -1, -1) excludes -1
LoopStopIncludesTarget(e, target) ==
    IF e = "cpu_backDataGeneration" THEN -1 ELSE target - 1
LoopStopSkipsLast(e, target) ==
    IF e = "cpu_backDataGeneration" THEN 0 ELSE target
LoopStop(e, target) ==
    IF e = "cpu_backDataGeneration" THEN -1 ELSE target

\* the row of params_tot handed over in iteration tt: params_tot[tt]
ParamRowBug(step) == step + 1
ParamRow(step) == step

\* the slot backDataGeneration reads in iteration tt: states[tt+1]
ReadSlot(step) == step + 1

PipeInit ==
    /\ entry \in Entries
    /\ n \in 1..MaxN
    /\ na \in 1..MaxNa
    /\ T \in 0..MaxT
    /\ Ndata \in 1..MaxNdata
    /\ T * Ndata * na <= MaxDraws
    \* randomMeasureParallel: one ancilla qubit, and a batch (lines 355, 361)
    /\ entry = "prepareInput_t" => (na = 1 /\ Ndata >= 2)
    /\ t \in (IF entry = "cpu_backDataGeneration" THEN {0} ELSE 0..T)
    /\ states = << >>
    /\ input_tplus1 = << >>
    /\ q_weights = -1
    /\ tt = 0
    /\ calls = << >>
    /\ writes = << >>
    /\ ppc = "start"
    /\ CircuitIdle
    /\ MeasIdle
    /\ DiffIdle

\* lines 250-252 and 392-394
BeginPrepareInput ==
    /\ ppc = "start" /\ entry \in {"cpu_prepareInput_t", "prepareInput_t"}
    /\ input_tplus1' = SetData(Zeros(Ndata, Pow2(n + na)), Inputs_T(Ndata, n), n)
    /\ tt' = FirstStep(T)
    /\ ppc' = "loop"
    /\ UNCHANGED <<entry, n, na, T, t, Ndata, states, q_weights, calls, writes>>
    /\ UNCHANGED <<circuitVars, measVars, diffVars>>

\* lines 263-265
BeginBackData ==
    /\ ppc = "start" /\ entry = "cpu_backDataGeneration"
    /\ states' = [s \in 0..T |->
                    IF s = T
                    THEN SetData(Zeros(Ndata, Pow2(n + na)), Inputs_T(Ndata, n), n)
                    ELSE Zeros(Ndata, Pow2(n + na))]
    /\ writes' = [s \in 0..T |-> 0]
    /\ tt' = FirstStep(T)
    /\ ppc' = "loop"
    /\ UNCHANGED <<entry, n, na, T, t, Ndata, input_tplus1, q_weights, calls>>
    /\ UNCHANGED <<circuitVars, measVars, diffVars>>

Call(step, p, rd, wr, handed, res, written) ==
    [tt |-> step, p |-> p, rd |-> rd, wr |-> wr, handed |-> handed,
     m_res |-> res, written |-> written]

\* line 255: one iteration of QDDPM_cpu.prepareInput_t
StepCpuPrepare ==
    /\ ppc = "loop" /\ entry = "cpu_prepareInput_t" /\ tt > LoopStop(entry, t)
    /\ \E res \in Outcomes(Ndata, na) :
         LET cn == Len(calls) + 1
             out_full == backCircuit_vmap(cn, input_tplus1, n + na)
             out_t == NormalizeCells(Gather(out_full, res, n))
             buf == SetData(input_tplus1, out_t, n)
         IN  /\ input_tplus1' = buf
             /\ calls' = Append(calls,
                    Call(tt, ParamRow(tt), -1, -1, input_tplus1, res, buf))
    /\ tt' = tt - 1
    /\ UNCHANGED <<entry, n, na, T, t, Ndata, states, q_weights, writes, ppc>>
    /\ UNCHANGED <<circuitVars, measVars, diffVars>>

\* lines 397-398: one iteration of QDDPM.prepareInput_t (mseq=False)
StepPrepare ==
    /\ ppc = "loop" /\ entry = "prepareInput_t" /\ tt > LoopStop(entry, t)
    /\ q_weights' = ParamRow(tt)
    /\ \E res \in Outcomes(Ndata, 1) :
         LET cn == Len(calls) + 1
             out_full == backCircuit_vmap(cn, input_tplus1, n + na)
             out_t == NormalizeCells(PartitionVstack(out_full, res, n))
             buf == SetData(input_tplus1, out_t, n)
         IN  /\ input_tplus1' = buf
             /\ calls' = Append(calls,
                    Call(tt, ParamRow(tt), -1, -1, input_tplus1, res, buf))
    /\ tt' = tt - 1
    /\ UNCHANGED <<entry, n, na, T, t, Ndata, states, writes, ppc>>
    /\ UNCHANGED <<circuitVars, measVars, diffVars>>

\* line 268: one iteration of QDDPM_cpu.backDataGeneration
StepBackData ==
    /\ ppc = "loop" /\ entry = "cpu_backDataGeneration" /\ tt > LoopStop(entry, t)
    /\ \E res \in Outcomes(Ndata, na) :
         LET cn == Len(calls) + 1
             handed == states[ReadSlot(tt)]
             out_full == backCircuit_vmap(cn, handed, n + na)
             out_t == NormalizeCells(Gather(out_full, res, n))
             slot == SetData(states[tt], out_t, n)
         IN  /\ states' = [states EXCEPT ![tt] = slot]
             /\ calls' = Append(calls,
                    Call(tt, ParamRow(tt), ReadSlot(tt), tt, handed, res, slot))
    /\ writes' = [writes EXCEPT ![tt] = @ + 1]
    /\ tt' = tt - 1
    /\ UNCHANGED <<entry, n, na, T, t, Ndata, input_tplus1, q_weights, ppc>>
    /\ UNCHANGED <<circuitVars, measVars, diffVars>>

\* the loop is exhausted: return self.input_tplus1 / return states
Return ==
    /\ ppc = "loop"
    /\ tt <= LoopStop(entry, t)
    /\ ppc' = "done"
    /\ UNCHANGED <<entry, n, na, T, t, Ndata, states, input_tplus1, q_weights,
                   tt, calls, writes>>
    /\ UNCHANGED <<circuitVars, measVars, diffVars>>

PipeNext ==
    \/ BeginPrepareInput
    \/ BeginBackData
    \/ StepCpuPrepare
    \/ StepPrepare
    \/ StepBackData
    \/ Return

SpecBack == PipeInit /\ [][PipeNext]_vars

-----------------------------------------------------------------------------
(* QDDPM_cpu.randomMeasure, QDDPM.randomMeasure, QDDPM.randomMeasureParallel *)

Impls == {"cpu_randomMeasure", "randomMeasure", "randomMeasureParallel"}

RECURSIVE SumSq(_, _, _)
\* sum of |row[p]|^2 for p in lo..hi
SumSq(row, lo, hi) ==
    IF lo > hi THEN 0 ELSE row[lo] * row[lo] + SumSq(row, lo + 1, hi)

\* the states a batch is drawn from: norm 1, or all-zero (a caller's
\* ensemble is not validated)
Samples(dim) ==
    { v \in [0..(dim - 1) -> 0..MaxAmp] : SumSq(v, 0, dim - 1) \in {0, NormSq} }

\* m_probs of line 222-223: the probability of ancilla outcome k
RowProb(v, nq, k) == SumSq(v, Pow2(nq) * k, Pow2(nq) * (k + 1) - 1)

\* tfp Categorical(probs).sample and measure_reference: an outcome of nonzero
\* probability; of an all-zero distribution, whatever the sampler returns
CategoricalDraws(v, nq, nanc) ==
    LET all == 0..(Pow2(nanc) - 1)
        pos == { k \in all : RowProb(v, nq, k) > 0 }
    IN  IF pos = {} THEN all ELSE pos

\* lines 359-361: torch.multinomial of (p0, 1 - p0)
MultinomialDraws(v, nq) ==
    LET p0 == SumSq(v, 0, Pow2(nq) - 1)
    IN  { k \in {0, 1} : (IF k = 0 THEN p0 ELSE NormSq - p0) > 0 }

\* x / norm, x * (1/norm): the amplitude num / sqrt(nsq); nsq = 0 is 0/0
NormalizeRow(row) ==
    [j \in DOMAIN row |-> [num |-> row[j], nsq |-> SumSq(row, 0, Pow2(n) - 1)]]

\* lines 228, 347-348 and 364-365 on a batch
Normalize(post) == [r \in DOMAIN post |-> NormalizeRow(post[r])]

MeasInit ==
    /\ impl \in Impls
    /\ n \in 1..MaxN
    /\ na \in 1..MaxNa
    /\ Ndata \in 1..MaxNdata
    /\ Ndata * Pow2(n + na) <= MaxCells
    \* randomMeasureParallel: one ancilla qubit, and a batch (lines 355, 361)
    /\ impl = "randomMeasureParallel" => (na = 1 /\ Ndata >= 2)
    /\ inputs \in [Rows(Ndata) -> Samples(Pow2(n + na))]
    /\ m_res = << >>
    /\ output_t = << >>
    /\ post_state = << >>
    /\ mpc = "start"
    /\ entry = "none" /\ T = 0 /\ t = 0
    /\ states = << >> /\ input_tplus1 = << >> /\ q_weights = -1 /\ tt = 0
    /\ calls = << >> /\ writes = << >> /\ ppc = "idle"
    /\ CircuitIdle
    /\ DiffIdle

\* QDDPM_cpu.randomMeasure, lines 221-228
RandomMeasureCpu ==
    /\ mpc = "start" /\ impl = "cpu_randomMeasure"
    /\ \E m \in Outcomes(Ndata, na) :
         /\ \A r \in Rows(Ndata) : m[r] \in CategoricalDraws(inputs[r], n, na)
         /\ m_res' = m
         /\ post_state' = Normalize(Gather(inputs, m, n))
    /\ mpc' = "done"
    /\ UNCHANGED <<impl, inputs, output_t>>
    /\ UNCHANGED <<circuitVars, pipeVars, diffVars>>

\* QDDPM.randomMeasureParallel, lines 359-366
RandomMeasureParallel ==
    /\ mpc = "start" /\ impl = "randomMeasureParallel"
    /\ \E m \in Outcomes(Ndata, 1) :
         /\ \A r \in Rows(Ndata) : m[r] \in MultinomialDraws(inputs[r], n)
         /\ m_res' = m
         /\ post_state' = Normalize(PartitionVstack(inputs, m, n))
    /\ mpc' = "done"
    /\ UNCHANGED <<impl, inputs, output_t>>
    /\ UNCHANGED <<circuitVars, pipeVars, diffVars>>

\* backwardOutput_t, lines 379-380: QDDPM.randomMeasure on the next sample.
\* The ancillas are measured, post-selected and flipped back to 0, so that
\* c.state()[:2**self.n] is the block of the measured outcome.
RandomMeasureSample ==
    /\ mpc = "start" /\ impl = "randomMeasure" /\ Len(output_t) < Ndata
    /\ LET r == Len(output_t)
       IN  \E k \in CategoricalDraws(inputs[r], n, na) :
             /\ m_res' = Append(m_res, k)
             /\ output_t' = Append(output_t,
                    NormalizeRow([j \in 0..(Pow2(n) - 1) |->
                        inputs[r][GatherIndices(n, k)[j]]]))
    /\ UNCHANGED <<impl, inputs, post_state, mpc>>
    /\ UNCHANGED <<circuitVars, pipeVars, diffVars>>

\* backwardOutput_t, line 381: output_t = torch.vstack(output_t)
VstackSamples ==
    /\ mpc = "start" /\ impl = "randomMeasure" /\ Len(output_t) = Ndata
    /\ post_state' = [r \in Rows(Ndata) |-> output_t[r + 1]]
    /\ m_res' = [r \in Rows(Ndata) |-> m_res[r + 1]]
    /\ mpc' = "done"
    /\ UNCHANGED <<impl, inputs, output_t>>
    /\ UNCHANGED <<circuitVars, pipeVars, diffVars>>

MeasNext ==
    \/ RandomMeasureCpu
    \/ RandomMeasureParallel
    \/ RandomMeasureSample
    \/ VstackSamples

SpecMeasure == MeasInit /\ [][MeasNext]_vars

-----------------------------------------------------------------------------
(* OneQubitDiffusionModel and MultiQubitDiffusionModel *)

\* the values tf.random.uniform can return are u / StreamMod, u in 0..StreamMod-1
StreamMod == 11

\* the u of the p-th number the generator yields after tf.random.set_seed(sd)
Stream(sd, p) == (7 * sd + 3 * p + 1) % StreamMod

\* tf.random.uniform((R, C)): the next R*C numbers of the stream, row-major
UniformDraw(sd, offset, R, C) ==
    [r \in Rows(R) |-> [k \in 0..(C - 1) |-> Stream(sd, offset + r * C + k)]]

\* u * pi/4 - pi/8, times the hyper-parameter h, in units of pi/(8*StreamMod)
PhiAngle(u, h) == (2 * u - StreamMod) * h

\* u * 0.2 + 0.4, times the hyper-parameter h, in units of 0.2/StreamMod
GAngle(u, h) == (u + 2 * StreamMod) * h

\* lines 152-153 (and 83-84): phis of a call with `steps` layers
DrawPhis(sd, hs, N, nq, steps) ==
    LET u == UniformDraw(sd, 0, N, 3 * nq * steps)
    IN  [r \in Rows(N) |-> [k \in 0..(3 * nq * steps - 1) |->
            PhiAngle(u[r][k], hs[k \div (3 * nq)])]]

\* lines 156-157: gs, drawn after phis
DrawGs(sd, hs, N, nq, steps) ==
    LET u == UniformDraw(sd, N * 3 * nq * steps, N, steps)
    IN  [r \in Rows(N) |-> [k \in 0..(steps - 1) |-> GAngle(u[r][k], hs[k])]]

\* a gate whose angle is num / sqrt(densq)
DGate(name, a, b, num, densq, l) ==
    [g |-> name, a |-> a, b |-> b, num |-> num, densq |-> densq, layer |-> l]

\* the square of the divisor of line 138: 2 * self.n ** 0.5 is 2 * sqrt(n)
RzzDenomSqBug(nq) == 2 * nq
RzzDenomSq(nq) == 4 * nq

RECURSIVE RotationLayer(_, _, _, _)
\* lines 131-134, qubits q..n-1 of layer l (lines 64-66 when n = 1)
RotationLayer(ph, nq, l, q) ==
    IF q >= nq THEN << >>
    ELSE << DGate("rz", q, q, ph[3 * nq * l + q], 1, l),
            DGate("ry", q, q, ph[3 * nq * l + nq + q], 1, l),
            DGate("rz", q, q, ph[3 * nq * l + 2 * nq + q], 1, l) >>
         \o RotationLayer(ph, nq, l, q + 1)

RECURSIVE Combinations2(_, _, _)
\* itertools.combinations(range(n), 2) from the pair (a, b) on
Combinations2(nq, a, b) ==
    IF a >= nq - 1 THEN << >>
    ELSE IF b >= nq THEN Combinations2(nq, a + 1, a + 2)
    ELSE << <<a, b>> >> \o Combinations2(nq, a, b + 1)

\* lines 137-138
RzzLayer(g, nq, l) ==
    LET pairs == Combinations2(nq, 0, 1)
    IN  [k \in 1..Len(pairs) |->
            DGate("rzz", pairs[k][1], pairs[k][2], g[l], RzzDenomSq(nq), l)]

\* the number of layers of the current call: t in the first, t+1 in the second
Steps(call) == t + call - 1

DiffInit ==
    /\ dmodel \in {"OneQubit", "MultiQubit"}
    /\ n \in (IF dmodel = "OneQubit" THEN {1} ELSE 1..MaxN)
    /\ Ndata \in 1..MaxNdata
    /\ t \in 0..MaxSteps
    /\ seed \in 0..MaxSeed
    /\ diff_hs \in [0..t -> 1..MaxH]
    /\ phis = << >>
    /\ gs = << >>
    /\ circ = << >>
    /\ sample = 0
    /\ dpc = "draw"
    /\ entry = "none" /\ na = 1 /\ T = 0
    /\ states = << >> /\ input_tplus1 = << >> /\ q_weights = -1 /\ tt = 0
    /\ calls = << >> /\ writes = << >> /\ ppc = "idle"
    /\ CircuitIdle
    /\ MeasIdle

\* set_diffusionData_t, lines 78-84, and set_diffusionDataMulti_t, lines 151-157
SetAngles ==
    /\ dpc = "draw" /\ Len(phis) < 2
    /\ LET call == Len(phis) + 1
       IN  /\ phis' = Append(phis, DrawPhis(seed, diff_hs, Ndata, n, Steps(call)))
           /\ gs' = Append(gs,
                  IF dmodel = "MultiQubit"
                  THEN DrawGs(seed, diff_hs, Ndata, n, Steps(call))
                  ELSE [r \in Rows(Ndata) |-> << >>])
           /\ circ' = Append(circ, [r \in Rows(Ndata) |-> << >>])
    /\ sample' = 0
    /\ dpc' = "scramble"
    /\ UNCHANGED <<dmodel, seed, diff_hs>>
    /\ UNCHANGED <<circuitVars, pipeVars, measVars>>

\* one iteration of "for s in range(t)" of scrambleCircuit_t on one sample
ScrambleLayer ==
    /\ dpc = "scramble" /\ sample < Ndata
    /\ LET call == Len(phis)
           l == Len(SelectSeq(circ[call][sample], LAMBDA x : x.g = "rz")) \div (2 * n)
       IN  /\ l < Steps(call)
           /\ circ' = [circ EXCEPT ![call][sample] =
                  @ \o RotationLayer(phis[call][sample], n, l, 0)
                    \o (IF dmodel = "MultiQubit"
                        THEN RzzLayer(gs[call][sample], n, l) ELSE << >>)]
    /\ UNCHANGED <<dmodel, seed, diff_hs, phis, gs, sample, dpc>>
    /\ UNCHANGED <<circuitVars, pipeVars, measVars>>

\* return c.state(): the circuit of this sample is complete
ScrambleReturn ==
    /\ dpc = "scramble" /\ sample < Ndata
    /\ Len(SelectSeq(circ[Len(phis)][sample], LAMBDA x : x.g = "rz"))
          = 2 * n * Steps(Len(phis))
    /\ sample' = sample + 1
    /\ UNCHANGED <<dmodel, seed, diff_hs, phis, gs, circ, dpc>>
    /\ UNCHANGED <<circuitVars, pipeVars, measVars>>

\* return states; the caller goes on to the call with t+1 layers
DiffusionReturn ==
    /\ dpc = "scramble" /\ sample = Ndata
    /\ dpc' = IF Len(phis) = 2 THEN "done" ELSE "draw"
    /\ UNCHANGED <<dmodel, seed, diff_hs, phis, gs, circ, sample>>
    /\ UNCHANGED <<circuitVars, pipeVars, measVars>>

DiffNext ==
    \/ SetAngles
    \/ ScrambleLayer
    \/ ScrambleReturn
    \/ DiffusionReturn

SpecDiff == DiffInit /\ [][DiffNext]_vars

-----------------------------------------------------------------------------
(* Claims about forward diffusion *)

RzzGates(call, r, l) ==
    SelectSeq(circ[call][r], LAMBDA x : x.g = "rzz" /\ x.layer = l)

LayersBuilt(call, r) ==
    Len(SelectSeq(circ[call][r], LAMBDA x : x.g = "rz")) \div (2 * n)

\* in every built layer the RZZ gates are one per pair i < j, in
\* lexicographic order, with the layer's sampled angle as numerator
OncePerPair(call, r, l) ==
    LET rzz == RzzGates(call, r, l)
    IN  /\ Len(rzz) = (n * (n - 1)) \div 2
        /\ \A a, b \in 0..(n - 1) : a < b =>
              Cardinality({ k \in 1..Len(rzz) : rzz[k].a = a /\ rzz[k].b = b }) = 1
        /\ \A k \in 1..Len(rzz) :
              /\ rzz[k].a < rzz[k].b
              /\ rzz[k].b < n
              /\ rzz[k].num = gs[call][r][l]
        /\ \A k1, k2 \in 1..Len(rzz) : k1 < k2 =>
              \/ rzz[k1].a < rzz[k2].a
              \/ rzz[k1].a = rzz[k2].a /\ rzz[k1].b < rzz[k2].b

\* (applied angle)^2 * factor * n = gs[s]^2, the applied angle being
\* num / sqrt(densq)
AngleScaled(call, r, l, factor) ==
    LET rzz == RzzGates(call, r, l)
    IN  \A k \in 1..Len(rzz) :
            rzz[k].num * rzz[k].num * factor * n
                = gs[call][r][l] * gs[call][r][l] * rzz[k].densq

C5_PrefixDeterminism ==
    dpc = "done" =>
        \A r \in Rows(Ndata) :
            /\ Len(circ[1][r]) <= Len(circ[2][r])
            /\ SubSeq(circ[2][r], 1, Len(circ[1][r])) = circ[1][r]

-----------------------------------------------------------------------------
(* Claims about the measurement routines *)

\* row k of the (2^na x 2^n) amplitude matrix of v, renormalised
CollapsedRow(v, k) ==
    LET s == SumSq(v, Pow2(n) * k, Pow2(n) * (k + 1) - 1)
    IN  [j \in 0..(Pow2(n) - 1) |-> [num |-> v[Pow2(n) * k + j], nsq |-> s]]

UnitNorm(v) == SumSq(v, 0, Pow2(n + na) - 1) = NormSq

\* C3 as claimed: with one ancilla and a batch of states of norm 1, each of
\* the three routines returns at every batch position r the renormalised row
\* m_res[r] of sample r's own amplitude matrix, so that the batch order is
\* preserved.
C3_SameStatePerPosition ==
    (mpc = "done" /\ na = 1 /\ \A r \in Rows(Ndata) : UnitNorm(inputs[r])) =>
        /\ DOMAIN post_state = Rows(Ndata)
        /\ \A r \in Rows(Ndata) : post_state[r] = CollapsedRow(inputs[r], m_res[r])

\* C7 as claimed: no routine returns a state obtained by dividing by a zero
\* norm.
C7_NoDivisionByZeroNorm ==
    mpc = "done" =>
        \A r \in DOMAIN post_state :
            \A j \in DOMAIN post_state[r] : post_state[r][j].nsq # 0

-----------------------------------------------------------------------------
(* Claims about the backward pipelines *)

IsPrepare == entry \in {"cpu_prepareInput_t", "prepareInput_t"}
IsBackData == entry = "cpu_backDataGeneration"

\* C1: prepareInput_t with target step t (of QDDPM_cpu and of QDDPM) runs
\* denoise transitions only for step indices in t+1..T, in strictly
\* decreasing order, and none whose step or parameter index is <= t.
C1_OnlyStepsAboveTarget ==
    IsPrepare =>
        /\ \A k \in 1..Len(calls) :
              /\ calls[k].tt \in (t + 1)..T
              /\ calls[k].p \in (t + 1)..T
        /\ \A k1, k2 \in 1..Len(calls) : k1 < k2 => calls[k1].tt > calls[k2].tt
        /\ q_weights = -1 \/ q_weights > t

\* Two transitions were run and the target step was reached.
C1_Witness ==
    /\ IsPrepare /\ ppc = "done"
    /\ Len(calls) = 2 /\ calls[1].tt = 2 /\ calls[2].tt = 1 /\ t = 0

DataFromCall(reg, k, r, m) ==
    \A j \in 0..(Pow2(n) - 1) :
        reg[r][j] = Normalized(OutCell(k, r, Pow2(n) * m + j))

\* what C2 says of every transition but the index of the parameter row
TransitionShape(k) ==
    /\ calls[k].wr = calls[k].rd - 1
    /\ calls[k].handed = states[calls[k].rd]
    /\ \A r \in Rows(Ndata) : DataFromCall(states[calls[k].wr], k, r, calls[k].m_res[r])

EveryStepLeft ==
    \A s \in 1..T : (ppc \in {"loop", "done"} /\ s - 1 > tt) =>
        \E k \in 1..Len(calls) : calls[k].rd = s

AncillaZero(reg) ==
    \A r \in DOMAIN reg :
        /\ DOMAIN reg[r] = 0..(Pow2(n + na) - 1)
        /\ \A p \in Pow2(n)..(Pow2(n + na) - 1) : reg[r][p] = ZeroCell
        /\ \A p \in 0..(Pow2(n) - 1) : reg[r][p].kind \in {"in", "post"}

DataOfOneRow(reg, k) ==
    \A r \in DOMAIN reg :
        \/ \A j \in 0..(Pow2(n) - 1) : reg[r][j] = InCell(r, j)
        \/ \E src \in Rows(Ndata), m \in 0..(Pow2(na) - 1) :
              \A j \in 0..(Pow2(n) - 1) :
                  reg[r][j] = Normalized(OutCell(k, src, Pow2(n) * m + j))

\* the register the next iteration hands to the circuit
NextHanded ==
    IF IsBackData THEN states[tt + 1] ELSE input_tplus1

\* C6: every register handed to the denoise circuit, in backDataGeneration
\* and in both prepareInput_t, has the data amplitudes in positions
\* 0..2^n-1 and exact zeros in every position >= 2^n: the register of step T
\* and the register after every transition, whatever the outcomes.
C6_AncillaReset ==
    /\ \A k \in 1..Len(calls) :
          /\ AncillaZero(calls[k].handed)
          /\ DataOfOneRow(calls[k].handed, k - 1)
    /\ (ppc = "loop" /\ tt > LoopStop(entry, t)) =>
          /\ AncillaZero(NextHanded)
          /\ DataOfOneRow(NextHanded, Len(calls))

\* A register that went through a two-ancilla measurement with outcome 3 is
\* handed to the circuit again.
C6_Witness ==
    /\ Len(calls) >= 2 /\ na = 2
    /\ \E r \in Rows(Ndata) : calls[1].m_res[r] = 3
    /\ calls[2].handed[0][0].kind = "post"

-----------------------------------------------------------------------------
(* Claims about backCircuit *)

CzGates(l) == SelectSeq(c, LAMBDA x : x.g = "cz" /\ x.layer = l)

CzPositions(l, a, b) ==
    { k \in 1..Len(CzGates(l)) : CzGates(l)[k].a = a /\ CzGates(l)[k].b = b }

\* C10: in every layer of backCircuit the controlled-Z gates built so far lie
\* on nearest-neighbour pairs (j, j+1) inside 0..n_tot-1, none twice, every
\* even-start pair before every odd-start pair; and once the layer is
\* complete every pair (j, j+1), 0 <= j < n_tot-1, has exactly one gate.
C10_BrickPattern ==
    \A l \in 0..(MaxL + 1) :
        /\ \A k \in 1..Len(CzGates(l)) :
              /\ CzGates(l)[k].a \in 0..(n_tot - 1)
              /\ CzGates(l)[k].b \in 0..(n_tot - 1)
              /\ CzGates(l)[k].b = CzGates(l)[k].a + 1
        /\ \A j \in 0..(n_tot - 1) : Cardinality(CzPositions(l, j, j + 1)) <= 1
        /\ \A k1, k2 \in 1..Len(CzGates(l)) :
              (CzGates(l)[k1].a % 2 = 1 /\ CzGates(l)[k2].a % 2 = 0) => k2 < k1
        /\ (l < layer) =>
              /\ \A j \in 0..(n_tot - 2) : Cardinality(CzPositions(l, j, j + 1)) = 1
              /\ Len(CzGates(l)) = n_tot - 1

\* A finished two-layer circuit on three or four qubits.
C10_Witness ==
    /\ pc = "done" /\ L = 2 /\ n_tot >= 3
    /\ Len(CzGates(1)) = n_tot - 1

\* C4 as claimed: every layer of a finished circuit holds rotations whose
\* angles are read from the parameter vector, after the fixed-angle gates and
\* before the entangling gates.
C4_TrainedRotations ==
    pc = "done" =>
        \A l \in 0..(L - 1) :
            \E k \in 1..Len(c) :
                /\ c[k].layer = l /\ c[k].src = "params"
                /\ \E k0 \in 1..(k - 1) : c[k0].layer = l /\ c[k0].src = "fixed"
                /\ \A k1 \in 1..Len(c) :
                      (c[k1].layer = l /\ c[k1].g = "cz") => k < k1

====
